---- MODULE Spec2Model ----
(***************************************************************************)
(* Model of the pdf-chatbot backend: the Milvus vector store wrapper       *)
(* (backend/database/database.py), the naive document processor            *)
(* (backend/document_processor/), the Chatbot (backend/chatbot.py) and the *)
(* FastAPI handlers (backend/app.py).                                      *)
(*                                                                         *)
(* External collaborators (Milvus server, embedding, rerank and generation *)
(* services, the PDF loader) are modelled by what they return: a value     *)
(* drawn from a small set, or a failure.                                   *)
(***************************************************************************)
EXTENDS Integers, Sequences, FiniteSets, TLC

\* ------------------------------------------------------------------ bounds
\* rows the vector collection may hold before uploads stop being accepted
MaxRows == 6
MaxQueries == 2
MaxRestarts == 1
\* number of passages a sub-retriever returns per query
TopK == 2

\* ----------------------------------------------------------- small domains
Files == {"a.pdf", "b.pdf"}
Queries == {"q1", "q2"}
Answers == [q \in Queries |-> IF q = "q1" THEN "ans1" ELSE "ans2"]
DbNames == {"default", "chatbot"}
ProcessorTypes == {"naive", "semantic"}

\* directories (values of the UPLOAD_DIR / DOCUMENT_DIR environment variables)
UPLOAD_DIR == "uploads"
DOCUMENT_DIR == "documents"
COLLECTION_NAME == "nice_guidelines"

\* top_n of the Cohere reranker
RerankTopN == 3

\* ------------------------------------------------------------ generic helpers
Range(s) == {s[i] : i \in DOMAIN s}

IsPrefix(s, t) == Len(s) <= Len(t) /\ SubSeq(t, 1, Len(s)) = s

Min(a, b) == IF a < b THEN a ELSE b

\* sequences of exactly n distinct elements of S
RECURSIVE InjSeqsOfLen(_, _)
InjSeqsOfLen(S, n) ==
    IF n = 0 THEN {<<>>}
    ELSE UNION {{Append(s, x) : x \in S \ Range(s)} : s \in InjSeqsOfLen(S, n - 1)}

RECURSIVE Concat(_)
Concat(ss) == IF Len(ss) = 0 THEN <<>> ELSE Head(ss) \o Concat(Tail(ss))

\* ------------------------------------------------- documents on the file system
\* Page number of every chunk the splitter cuts out of a PDF, in order.
\* "a.pdf" has two chunks on page 0 and one on page 1, "b.pdf" one chunk.
PagesOf(f) ==
    CASE f = "a.pdf" -> <<0, 0, 1>>
      [] f = "b.pdf" -> <<0>>
      [] OTHER       -> <<>>

\* directory listing order used by the directory loader
FileOrder == <<"a.pdf", "b.pdf">>

\* chunks of one file read from directory dir: the loader records the path
\* it read the file from as metadata["source"]
ChunksOfFile(dir, f) ==
    [i \in 1..Len(PagesOf(f)) |->
        [page_content |-> <<f, i>>,
         metadata |-> [source |-> <<dir, f>>, page |-> PagesOf(f)[i]]]]

\* NaiveProcessor.load_and_split_documents(pdf_dir), files = content of pdf_dir
load_and_split_documents(dir, files) ==
    Concat([k \in 1..Len(FileOrder) |->
        IF FileOrder[k] \in files THEN ChunksOfFile(dir, FileOrder[k]) ELSE <<>>])

\* the embedding service: one vector per text, order preserving
embed_documents(contents) == [i \in 1..Len(contents) |-> <<"vec", contents[i]>>]

\* a loop that starts collecting page numbers at the second chunk
EmbeddingRows_PagesOffByOne(texts) ==
    LET contents == [i \in 1..Len(texts) |-> texts[i].page_content]
        sources  == [i \in 1..Len(texts) |-> texts[i].metadata.source]
        pages    == [i \in 1..(Len(texts) - 1) |-> texts[i + 1].metadata.page]
        embeddings == embed_documents(contents)
        n == Min(Min(Len(embeddings), Len(contents)), Min(Len(sources), Len(pages)))
    IN [i \in 1..n |-> [vector |-> embeddings[i], text |-> contents[i],
                        source |-> sources[i], page |-> pages[i]]]

\* the rows NaiveProcessor.compute_and_store_embeddings builds from the chunks
EmbeddingRows(texts) ==
    LET contents == [i \in 1..Len(texts) |-> texts[i].page_content]
        sources  == [i \in 1..Len(texts) |-> texts[i].metadata.source]
        pages    == [i \in 1..Len(texts) |-> texts[i].metadata.page]
        embeddings == embed_documents(contents)
        n == Min(Min(Len(embeddings), Len(contents)), Min(Len(sources), Len(pages)))
    IN [i \in 1..n |-> [vector |-> embeddings[i], text |-> contents[i],
                        source |-> sources[i], page |-> pages[i]]]

\* an insert that skips the rows whose content the collection already holds
insert_data_Dedup(rows, data) ==
    rows \o SelectSeq(data, LAMBDA d : \A i \in DOMAIN rows : rows[i] # d)

\* VectorStore.insert_data: Collection.insert appends the rows
insert_data(rows, data) == rows \o data

\* ------------------------------------------------------------- vector store
\* a constructor that creates the collection without asking has_collection
VectorStoreInit_Recreate(m, db_name, collection_name) ==
    LET m1 == IF db_name \notin m.dbs
              THEN [m EXCEPT !.dbs = @ \cup {db_name},
                             !.dbCreated = Append(@, db_name)]
              ELSE m
        key == <<db_name, collection_name>>
    IN [m1 EXCEPT !.colls = [k \in DOMAIN m1.colls \cup {key} |->
                                IF k = key THEN <<>> ELSE m1.colls[k]],
                  !.created = Append(@, key)]

\* VectorStore.__init__ / create_collection on the Milvus state
\* m = [dbs, colls, created, dbCreated]: the listed databases, the rows of
\* every existing collection, and the logs of the create calls the server
\* has received for collections and for databases.
VectorStoreInit(m, db_name, collection_name) ==
    LET m1 == IF db_name \notin m.dbs
              THEN [m EXCEPT !.dbs = @ \cup {db_name},
                             !.dbCreated = Append(@, db_name)]
              ELSE m
        key == <<db_name, collection_name>>
    IN IF key \notin DOMAIN m1.colls
       THEN [m1 EXCEPT !.colls = [k \in DOMAIN m1.colls \cup {key} |->
                                     IF k = key THEN <<>> ELSE m1.colls[k]],
                       !.created = Append(@, key)]
       ELSE m1

\* ------------------------------------------------------ processor factory
NoProcessor == [kind |-> "none"]

\* NaiveProcessor(db_name, collection_name) on Milvus state m: the
\* BaseProcessor constructor builds a VectorStore, which opens a connection
NaiveProcessor(m, db_name, collection_name) ==
    [err |-> "none",
     processor |-> [kind |-> "NaiveProcessor", db_name |-> db_name,
                    collection_name |-> collection_name],
     milvus |-> VectorStoreInit(m, db_name, collection_name),
     connects |-> 1]

\* a factory that builds the processor before it looks at the tag
get_document_processor_ConstructFirst(processor_type, m, db_name, collection_name) ==
    LET built == NaiveProcessor(m, db_name, collection_name)
    IN IF processor_type = "naive" THEN built
       ELSE [built EXCEPT !.err = "ValueError", !.processor = NoProcessor]

\* get_document_processor(processor_type, db_name, collection_name) on Milvus
\* state m: [err, processor, milvus, connects], connects the number of
\* vector-store connections the call opened
get_document_processor(processor_type, m, db_name, collection_name) ==
    IF processor_type = "naive"
    THEN NaiveProcessor(m, db_name, collection_name)
    ELSE [err |-> "ValueError", processor |-> NoProcessor, milvus |-> m,
          connects |-> 0]

\* ------------------------------------------------------ Chatbot._create_chain
\* a local variable of _create_chain that no executed statement has assigned
Unbound == [kind |-> "unbound"]

\* the exception a read of an unassigned local raises
UnboundLocalError == [kind |-> "UnboundLocalError"]

\* chatbot.py:66  self.vector_store.as_retriever(...)
semantic_retriever == [kind |-> "dense"]

\* chatbot.py:75  BM25Retriever.from_documents(chunks, ...)
bm25_retriever(chunks) == [kind |-> "bm25", docs |-> chunks]

\* a bm25 branch without the len(chunks) == 0 test
CreateRetriever_AlwaysEnsemble(bm25, chunks) ==
    IF bm25
    THEN [kind |-> "ensemble",
          retrievers |-> <<semantic_retriever, bm25_retriever(chunks)>>,
          weights |-> <<8, 2>>]
    ELSE Unbound

\* chatbot.py:68-81  the local `retriever` after the bm25 branch
CreateRetriever(bm25, chunks) ==
    IF bm25
    THEN IF Len(chunks) = 0
         THEN semantic_retriever
         ELSE [kind |-> "ensemble",
               retrievers |-> <<semantic_retriever, bm25_retriever(chunks)>>,
               weights |-> <<8, 2>>]
    ELSE Unbound

\* chatbot.py:83-87  the local `compression_retriever` after the rerank branch;
\* reading `retriever` while it is unassigned raises
CreateCompression(reranker, retriever) ==
    IF reranker
    THEN IF retriever.kind = "unbound"
         THEN UnboundLocalError
         ELSE [kind |-> "compression", base_retriever |-> retriever,
               top_n |-> RerankTopN]
    ELSE Unbound

\* chatbot.py:89-114  the chain built over `compression_retriever`
CreateRetrievalChain(compression_retriever) ==
    IF compression_retriever.kind \in {"unbound", "UnboundLocalError"}
    THEN UnboundLocalError
    ELSE [kind |-> "chain", retriever |-> compression_retriever]

\* Chatbot._create_chain as a whole: the value assigned to self.chain, or
\* the exception raised before the assignment
create_chain(bm25, reranker, chunks) ==
    CreateRetrievalChain(CreateCompression(reranker, CreateRetriever(bm25, chunks)))

\* ----------------------------------------------------------------- retrieval
\* a row of the vector collection as the Document the dense retriever returns
RowDocument(row) ==
    [page_content |-> row.text,
     metadata |-> [source |-> row.source, page |-> row.page]]

\* the retriever below the (optional) compression stage
BaseRetriever(r) == IF r.kind = "compression" THEN r.base_retriever ELSE r

\* the documents the lexical index of chain c holds (none: no lexical index)
LexicalCorpus(c) ==
    LET b == BaseRetriever(c.retriever)
    IN IF b.kind = "ensemble" THEN b.retrievers[2].docs ELSE <<>>

RRF_C == 60

RECURSIVE RRFScale(_)
RRFScale(n) == IF n = 0 THEN 1 ELSE (n + RRF_C) * RRFScale(n - 1)

RECURSIVE RankSum(_, _, _, _)
\* sum over the ranks r >= from at which list holds content, of scale/(r + c)
RankSum(list, content, from, scale) ==
    IF from > Len(list) THEN 0
    ELSE (IF list[from].page_content = content THEN scale \div (from + RRF_C) ELSE 0)
         + RankSum(list, content, from + 1, scale)

\* EnsembleRetriever.weighted_reciprocal_rank: the score of a page_content
RRFScore(doc_lists, weights, content) ==
    LET n1 == Len(doc_lists[1])
        n2 == Len(doc_lists[2])
        scale == RRFScale(IF n1 > n2 THEN n1 ELSE n2)
    IN weights[1] * RankSum(doc_lists[1], content, 1, scale)
       + weights[2] * RankSum(doc_lists[2], content, 1, scale)

RECURSIVE UniqueByContent(_, _)
UniqueByContent(docs, seen) ==
    IF Len(docs) = 0 THEN <<>>
    ELSE IF Head(docs).page_content \in seen
         THEN UniqueByContent(Tail(docs), seen)
         ELSE <<Head(docs)>> \o
              UniqueByContent(Tail(docs), seen \cup {Head(docs).page_content})

\* stable insertion of d into a list sorted by descending score
RECURSIVE InsertByScore(_, _, _, _)
InsertByScore(sorted, d, doc_lists, weights) ==
    IF Len(sorted) = 0 THEN <<d>>
    ELSE IF RRFScore(doc_lists, weights, Head(sorted).page_content)
            >= RRFScore(doc_lists, weights, d.page_content)
         THEN <<Head(sorted)>> \o InsertByScore(Tail(sorted), d, doc_lists, weights)
         ELSE <<d>> \o sorted

RECURSIVE SortByScore(_, _, _, _)
SortByScore(docs, acc, doc_lists, weights) ==
    IF Len(docs) = 0 THEN acc
    ELSE SortByScore(Tail(docs), InsertByScore(acc, Head(docs), doc_lists, weights),
                     doc_lists, weights)

\* EnsembleRetriever: weighted reciprocal rank fusion of the two result lists
Fuse(dense, lexical, weights) ==
    LET doc_lists == <<dense, lexical>>
    IN SortByScore(UniqueByContent(dense \o lexical, {}), <<>>, doc_lists, weights)

\* the candidate list retriever r (below the compression stage) produces from
\* the result lists of the two searches
Candidates(r, dense, lexical) ==
    IF r.kind = "ensemble" THEN Fuse(dense, lexical, r.weights) ELSE dense

\* The relevance scores of the search and rerank services are external; three
\* rank orders over a pool of n entries are enumerated: storage order, its
\* reverse, and storage order rotated by one.
RankOrders(n) ==
    {[i \in 1..n |-> i], [i \in 1..n |-> n + 1 - i], [i \in 1..n |-> (i % n) + 1]}

\* the result lists a search over pool may return: the k best entries (all of
\* them when the pool is smaller), best first
SearchResults(pool, k) ==
    {[i \in 1..Min(k, Len(pool)) |-> pool[o[i]]] : o \in RankOrders(Len(pool))}

\* a reranker that reorders the candidates and returns all of them
RerankResults_NoCut(candidates, top_n) ==
    SearchResults(candidates, Len(candidates))

\* CohereRerank: the top_n candidates by relevance, best first
RerankResults(candidates, top_n) == SearchResults(candidates, top_n)

\* the passages retriever r of the chain hands to answer synthesis
ContextChoices(r, candidates) ==
    IF r.kind = "compression" THEN RerankResults(candidates, r.top_n)
    ELSE {candidates}

\* ----------------------------------------------------- Chatbot.get_response
\* str(page) for a page number
RECURSIVE Str(_)
Str(n) ==
    LET d == <<"0", "1", "2", "3", "4", "5", "6", "7", "8", "9">>
    IN IF n < 10 THEN d[n + 1] ELSE Str(n \div 10) \o d[(n % 10) + 1]

\* chatbot.py:118-121  the set of (source, "page: N") pairs of the context
Sources(context) ==
    {<<context[i].metadata.source, "page: " \o Str(context[i].metadata.page)>> :
        i \in DOMAIN context}

HumanMessage(content) == [role |-> "user", content |-> content]
AIMessage(content) == [role |-> "assistant", content |-> content]

\* ------------------------------------------------------------------- state
VARIABLES
    cfg,           \* environment: [bm25, rerank, ptype, db]  (app.py:20-26)
    milvus,        \* the Milvus server: [dbs, colls, created, dbCreated]
    staging,       \* file names in UPLOAD_DIR
    docDir,        \* file names in DOCUMENT_DIR
    phase,         \* "starting", "processor", "up", "crashed"
    startErr,      \* the exception that ended start-up, or "none"
    chat_history,  \* Chatbot.chat_history
    chain,         \* Chatbot.chain
    chainChunks,   \* the chunks loaded by the _create_chain call that set chain
    upc,           \* position of the upload handler
    ufile,         \* file.filename of the upload request being handled
    utodo,         \* os.listdir(UPLOAD_DIR) entries the move loop still visits
    ulocal,        \* locals of the running _create_chain call: [chunks, chain]
    ulog,          \* steps the current upload request has completed, in order
    cpc,           \* position of the chat handler
    creq,          \* locals of the running get_response call
    okLog,         \* [query, answer] of every get_response that returned, since construction
    nRestarts,     \* process restarts
    calls,         \* get_response calls of two threads sharing the Chatbot
    ingested,      \* files in UPLOAD_DIR whose rows an ingestion call has inserted
    dresp          \* the last response of the get_document endpoint

vars == <<cfg, milvus, staging, docDir, phase, startErr, chat_history, chain,
          chainChunks, upc, ufile, utodo, ulocal, ulog, cpc, creq, okLog, nRestarts,
          calls, ingested, dresp>>

NoChain == [kind |-> "none"]
NoLocal == [chunks |-> <<>>, chain |-> NoChain]
NoReq == [query |-> "", chain |-> NoChain, pre |-> <<>>, standalone |-> "",
          dense |-> <<>>, candidates |-> <<>>, context |-> <<>>, answer |-> "",
          status |-> 0, source_documents |-> <<>>, failed |-> "none"]

Threads == {1, 2}

\* locals of a get_response call of a thread; after: the call of the other
\* thread was running when this call began
NoCall == [pc |-> "idle", query |-> "", pre |-> <<>>, status |-> 0, after |-> FALSE]

\* exists: what os.path.exists answered for the requested file
NoResponse == [filename |-> "", exists |-> FALSE, status |-> 0, detail |-> ""]

Configs == [bm25 : BOOLEAN, rerank : BOOLEAN, ptype : ProcessorTypes, db : DbNames]

CollKey == <<cfg.db, COLLECTION_NAME>>
Rows == milvus.colls[CollKey]

Init ==
    /\ cfg \in Configs
    /\ milvus = [dbs |-> {"default"}, colls |-> <<>>, created |-> <<>>,
                 dbCreated |-> <<>>]
    /\ staging = {}
    /\ docDir = {}
    /\ phase = "starting"
    /\ startErr = "none"
    /\ chat_history = <<>>
    /\ chain = NoChain
    /\ chainChunks = <<>>
    /\ upc = "idle"
    /\ ufile = ""
    /\ utodo = {}
    /\ ulocal = NoLocal
    /\ ulog = <<>>
    /\ cpc = "idle"
    /\ creq = NoReq
    /\ okLog = <<>>
    /\ nRestarts = 0
    /\ calls = [t \in Threads |-> NoCall]
    /\ ingested = {}
    /\ dresp = NoResponse

Persistent == <<milvus, staging, docDir, ingested>>
UploadVars == <<upc, ufile, utodo, ulocal, ulog>>
ChatVars == <<cpc, creq, okLog>>

\* ------------------------------------------------------------------ start-up
\* a chain that reads its lexical corpus from the staging directory
LoadLexicalCorpus_FromStaging(staged, docs) ==
    load_and_split_documents(UPLOAD_DIR, staged)

\* chatbot.py:70  self.doc_processor.load_and_split_documents(DOCUMENT_DIR),
\* given the content of the staging directory and of the document store
LoadLexicalCorpus(staged, docs) == load_and_split_documents(DOCUMENT_DIR, docs)

\* Chatbot.__init__ (chatbot.py:22-48) on Milvus state m: the Milvus client
\* connects (conn), the processor factory builds the NaiveProcessor and with
\* it a VectorStore, and _create_chain builds the first chain (load: whether
\* the PDF loader succeeds).
ChatbotInit(c, m, docs, conn, load) ==
    IF conn # "ok"
    THEN [err |-> "MilvusException", milvus |-> m, chain |-> NoChain, chunks |-> <<>>]
    ELSE LET p == get_document_processor(c.ptype, m, c.db, COLLECTION_NAME)
             m1 == p.milvus
         IN IF p.err # "none"
            THEN [err |-> p.err, milvus |-> m1, chain |-> NoChain, chunks |-> <<>>]
            ELSE IF c.bm25 /\ load # "ok"
            THEN [err |-> "LoaderError", milvus |-> m1, chain |-> NoChain,
                  chunks |-> <<>>]
            ELSE LET chunks == IF c.bm25 THEN LoadLexicalCorpus({}, docs) ELSE <<>>
                     built == create_chain(c.bm25, c.rerank, chunks)
                 IN IF built.kind = "UnboundLocalError"
                    THEN [err |-> "UnboundLocalError", milvus |-> m1,
                          chain |-> NoChain, chunks |-> <<>>]
                    ELSE [err |-> "none", milvus |-> m1, chain |-> built,
                          chunks |-> chunks]

\* app.py:29-36  chatbot = Chatbot(...); an exception ends the process
StartChatbot ==
    /\ phase = "starting"
    /\ \E conn \in {"ok", "fail"}, load \in {"ok", "fail"} :
         LET r == ChatbotInit(cfg, milvus, docDir, conn, load)
         IN /\ milvus' = r.milvus
            /\ chain' = r.chain
            /\ chainChunks' = r.chunks
            /\ startErr' = r.err
            /\ phase' = IF r.err = "none" THEN "processor" ELSE "crashed"
    /\ chat_history' = <<>>
    /\ UNCHANGED <<cfg, staging, docDir, ingested, UploadVars, ChatVars, nRestarts,
                   calls, dresp>>

\* app.py:38-45  doc_processor = get_document_processor(...)
StartProcessor ==
    /\ phase = "processor"
    /\ LET p == get_document_processor(cfg.ptype, milvus, cfg.db, COLLECTION_NAME)
       IN /\ milvus' = p.milvus
          /\ phase' = IF p.err = "none" THEN "up" ELSE "crashed"
          /\ startErr' = IF p.err = "none" THEN startErr ELSE p.err
    /\ UNCHANGED <<cfg, staging, docDir, ingested, chat_history, chain, chainChunks,
                   UploadVars, ChatVars, nRestarts, calls, dresp>>

\* the process is stopped and started again in the same environment; Milvus
\* and the directories persist, memory does not
Restart ==
    /\ phase \in {"up", "crashed"}
    /\ upc = "idle" /\ cpc = "idle"
    /\ nRestarts < MaxRestarts
    /\ nRestarts' = nRestarts + 1
    /\ phase' = "starting"
    /\ startErr' = "none"
    /\ chat_history' = <<>>
    /\ chain' = NoChain
    /\ chainChunks' = <<>>
    /\ okLog' = <<>>
    /\ ulog' = <<>>
    /\ UNCHANGED <<cfg, Persistent, upc, ufile, utodo, ulocal, cpc, creq, calls, dresp>>

\* ------------------------------------------------------- upload (app.py:92-124)
\* NaiveProcessor.compute_and_store_embeddings(pdf_dir) on the rows of the
\* collection, files = content of pdf_dir
compute_and_store_embeddings(rows, dir, files) ==
    insert_data(rows, EmbeddingRows(load_and_split_documents(dir, files)))

\* a processor that embeds and inserts the chunks one at a time: a failure
\* of the embedding service leaves the rows of the chunks before it
StoreEmbeddings_ChunkByChunk(rows, dir, files, outcome) ==
    LET data == EmbeddingRows(load_and_split_documents(dir, files))
    IN IF outcome = "ok" THEN insert_data(rows, data)
       ELSE IF outcome = "embed_error" /\ Len(data) > 0
       THEN insert_data(rows, SubSeq(data, 1, 1))
       ELSE rows

\* naive_processor.py:23-40  the rows of the collection after a
\* compute_and_store_embeddings(pdf_dir) call with the given outcome: the
\* loader (line 25) or the embedding service (line 36) raises before the one
\* insert_data call of line 40, or that call raises, or all succeed
StoreEmbeddings(rows, dir, files, outcome) ==
    IF outcome = "ok" THEN compute_and_store_embeddings(rows, dir, files)
    ELSE rows

\* a handler that swallows the ingestion error and goes on
AfterIngest_Always(outcome) == "move"

\* where the handler continues after the ingestion call: an exception leaves
\* the try block (app.py:122-124)
AfterIngest(outcome) == IF outcome = "ok" THEN "move" ELSE "idle"

RECURSIVE UploadSize(_)
\* number of chunks the files of the staging directory split into
UploadSize(files) ==
    IF files = {} THEN 0
    ELSE LET f == CHOOSE g \in files : TRUE
         IN Len(PagesOf(f)) + UploadSize(files \ {f})

\* app.py:94-102  the file is written into the staging directory
UploadSave(f) ==
    /\ phase = "up" /\ upc = "idle"
    /\ Len(Rows) + UploadSize(staging \cup {f}) <= MaxRows
    /\ staging' = staging \cup {f}
    /\ ingested' = ingested \ {f}
    /\ upc' = "ingest"
    /\ ufile' = f
    /\ ulog' = <<"save">>
    /\ UNCHANGED <<cfg, milvus, docDir, phase, startErr, chat_history, chain,
                   chainChunks, utodo, ulocal, ChatVars, nRestarts, calls, dresp>>

\* app.py:104-107  doc_processor.compute_and_store_embeddings(UPLOAD_DIR);
\* the loader, the embedding service or the insert may fail
UploadIngest ==
    /\ upc = "ingest"
    /\ \E outcome \in {"ok", "load_error", "embed_error", "insert_error"} :
         /\ milvus' = [milvus EXCEPT !.colls[CollKey] =
                          StoreEmbeddings(@, UPLOAD_DIR, staging, outcome)]
         /\ ingested' = IF outcome = "ok" THEN staging ELSE ingested
         /\ upc' = AfterIngest(outcome)
         /\ ulog' = Append(ulog, IF outcome = "ok" THEN "ingest" ELSE "error")
         /\ utodo' = IF AfterIngest(outcome) = "move" THEN staging ELSE {}
    /\ UNCHANGED <<cfg, staging, docDir, phase, startErr, chat_history, chain,
                   chainChunks, ufile, ulocal, ChatVars, nRestarts, calls, dresp>>

\* app.py:111-113  one iteration of the move loop; shutil.move raises when
\* DOCUMENT_DIR already holds a file of that name
UploadMove(f) ==
    /\ upc = "move"
    /\ f \in utodo
    /\ IF f \in docDir
       THEN /\ upc' = "idle"
            /\ utodo' = {}
            /\ ulog' = Append(ulog, "error")
            /\ UNCHANGED <<staging, docDir, ingested>>
       ELSE /\ staging' = staging \ {f}
            /\ ingested' = ingested \ {f}
            /\ docDir' = docDir \cup {f}
            /\ utodo' = utodo \ {f}
            /\ ulog' = Append(ulog, "move")
            /\ upc' = upc
    /\ UNCHANGED <<cfg, milvus, phase, startErr, chat_history, chain,
                   chainChunks, ufile, ulocal, ChatVars, nRestarts, calls, dresp>>

\* app.py:114  shutil.rmtree(UPLOAD_DIR)
UploadRmtree ==
    /\ upc = "move"
    /\ utodo = {}
    /\ staging' = {}
    /\ ingested' = {}
    /\ upc' = "load"
    /\ ulog' = Append(ulog, "rmtree")
    /\ UNCHANGED <<cfg, milvus, docDir, phase, startErr, chat_history, chain,
                   chainChunks, ufile, utodo, ulocal, ChatVars, nRestarts, calls, dresp>>

\* a _create_chain that takes the installed chain down before it rebuilds
CreateChainLoad_InPlace ==
    /\ upc = "load"
    /\ upc' = "build"
    /\ chain' = NoChain
    /\ ulocal' = [chunks |-> IF cfg.bm25 THEN LoadLexicalCorpus(staging, docDir)
                             ELSE <<>>,
                  chain |-> NoChain]
    /\ UNCHANGED <<cfg, Persistent, phase, startErr, chat_history, chainChunks,
                   ufile, utodo, ulog, ChatVars, nRestarts, calls, dresp>>

\* app.py:118 -> chatbot.py:66-70  _create_chain loads the lexical corpus
CreateChainLoad ==
    /\ upc = "load"
    /\ \E load \in {"ok", "fail"} :
         IF cfg.bm25 /\ load # "ok"
         THEN /\ upc' = "idle"
              /\ ulocal' = NoLocal
              /\ ulog' = Append(ulog, "error")
         ELSE /\ upc' = "build"
              /\ ulocal' = [chunks |-> IF cfg.bm25
                                       THEN LoadLexicalCorpus(staging, docDir)
                                       ELSE <<>>,
                            chain |-> NoChain]
              /\ ulog' = ulog
    /\ UNCHANGED <<cfg, Persistent, phase, startErr, chat_history, chain,
                   chainChunks, ufile, utodo, ChatVars, nRestarts, calls, dresp>>

\* chatbot.py:71-111  the retrievers and sub-chains are built in locals
CreateChainBuild ==
    /\ upc = "build"
    /\ LET built == create_chain(cfg.bm25, cfg.rerank, ulocal.chunks)
       IN IF built.kind = "UnboundLocalError"
          THEN /\ upc' = "idle"
               /\ ulocal' = NoLocal
               /\ ulog' = Append(ulog, "error")
          ELSE /\ upc' = "assign"
               /\ ulocal' = [ulocal EXCEPT !.chain = built]
               /\ ulog' = ulog
    /\ UNCHANGED <<cfg, Persistent, phase, startErr, chat_history, chain,
                   chainChunks, ufile, utodo, ChatVars, nRestarts, calls, dresp>>

\* a _create_chain that starts a new conversation with the new chain
CreateChainAssign_ResetsHistory ==
    /\ upc = "assign"
    /\ chain' = ulocal.chain
    /\ chainChunks' = ulocal.chunks
    /\ chat_history' = <<>>
    /\ ulocal' = NoLocal
    /\ upc' = "respond"
    /\ ulog' = Append(ulog, "rebuild")
    /\ UNCHANGED <<cfg, Persistent, phase, startErr, ufile, utodo,
                   ChatVars, nRestarts, calls, dresp>>

\* chatbot.py:114  self.chain = create_retrieval_chain(...)
CreateChainAssign ==
    /\ upc = "assign"
    /\ chain' = ulocal.chain
    /\ chainChunks' = ulocal.chunks
    /\ ulocal' = NoLocal
    /\ upc' = "respond"
    /\ ulog' = Append(ulog, "rebuild")
    /\ UNCHANGED <<cfg, Persistent, phase, startErr, chat_history, ufile, utodo,
                   ChatVars, nRestarts, calls, dresp>>

\* app.py:119-121  the handler returns the success message
UploadRespond ==
    /\ upc = "respond"
    /\ upc' = "idle"
    /\ ulog' = Append(ulog, "ok")
    /\ UNCHANGED <<cfg, Persistent, phase, startErr, chat_history, chain,
                   chainChunks, ufile, utodo, ulocal, ChatVars, nRestarts, calls, dresp>>

\* -------------------------------------------------- chat (app.py:49-58)
\* list(sources): the entries of the set in some order
ListOfSet(S) == InjSeqsOfLen(S, Cardinality(S))

\* a get_response that appends one entry per passage to a list (no set)
source_documents_NoDedup(context) ==
    {[i \in DOMAIN context |->
        <<context[i].metadata.source, "page: " \o Str(context[i].metadata.page)>>]}

\* chatbot.py:118-131  the source_documents lists get_response may return
source_documents(context) == ListOfSet(Sources(context))

\* a get_response that assigns the new pair instead of extending the list
ExtendHistory_Replace(history, query, answer) ==
    <<HumanMessage(query), AIMessage(answer)>>

\* chatbot.py:122-127  self.chat_history.extend([HumanMessage, AIMessage])
ExtendHistory(history, query, answer) ==
    history \o <<HumanMessage(query), AIMessage(answer)>>

\* an exception leaves get_response; the handler answers with status 500
Fail(stage) ==
    /\ cpc' = "return"
    /\ creq' = [creq EXCEPT !.status = 500, !.failed = stage]
    /\ UNCHANGED <<chat_history, okLog>>

\* the documents the dense retriever searches
DensePool == [i \in 1..Len(Rows) |-> RowDocument(Rows[i])]

\* a get_response that appends the user turn before it invokes the chain
ChatInvoke_AppendsUserTurn(q) ==
    /\ phase = "up" /\ cpc = "idle"
    /\ Len(chat_history) < 2 * MaxQueries
    /\ cpc' = "contextualize"
    /\ creq' = [NoReq EXCEPT !.query = q, !.chain = chain, !.pre = chat_history]
    /\ chat_history' = Append(chat_history, HumanMessage(q))
    /\ UNCHANGED <<cfg, Persistent, phase, startErr, chain, chainChunks,
                   UploadVars, okLog, nRestarts, calls, dresp>>

\* app.py:53 -> chatbot.py:117  get_response reads self.chain and invokes it
ChatInvoke(q) ==
    /\ phase = "up" /\ cpc = "idle"
    /\ Len(chat_history) < 2 * MaxQueries
    /\ cpc' = "contextualize"
    /\ creq' = [NoReq EXCEPT !.query = q, !.chain = chain, !.pre = chat_history]
    /\ UNCHANGED <<cfg, Persistent, phase, startErr, chat_history, chain,
                   chainChunks, UploadVars, okLog, nRestarts, calls, dresp>>

\* a contextualization that asks the LLM for a rewrite whatever the history
Contextualize_AlwaysRewrite(history, query) == Queries \cup {"fail"}

\* create_history_aware_retriever: the questions the retriever may be given
\* for query under history. With an empty history the input goes to the
\* retriever as it is, otherwise the LLM rewrites it (and may fail).
Contextualize(history, query) ==
    IF history = <<>> THEN {query} ELSE Queries \cup {"fail"}

\* chatbot.py:89-91  the history-aware retriever forms the retrieval question
ChatContextualize ==
    /\ cpc = "contextualize"
    /\ \E out \in Contextualize(chat_history, creq.query) :
         IF out = "fail"
         THEN Fail("contextualize")
         ELSE /\ cpc' = "retrieve"
              /\ creq' = [creq EXCEPT !.standalone = out]
              /\ UNCHANGED <<chat_history, okLog>>
    /\ UNCHANGED <<cfg, Persistent, phase, startErr, chain, chainChunks,
                   UploadVars, nRestarts, calls, dresp>>

\* the dense search, the lexical search (when the chain has a lexical index)
\* and their fusion
ChatRetrieve ==
    /\ cpc = "retrieve"
    /\ LET base == BaseRetriever(creq.chain.retriever)
           lexPool == IF base.kind = "ensemble" THEN base.retrievers[2].docs ELSE <<>>
       IN \/ \E dense \in SearchResults(DensePool, TopK),
                lexical \in SearchResults(lexPool, TopK) :
                /\ cpc' = "rerank"
                /\ creq' = [creq EXCEPT !.dense = dense,
                                         !.candidates = Candidates(base, dense, lexical)]
                /\ UNCHANGED <<chat_history, okLog>>
          \/ Fail("dense")
          \/ base.kind = "ensemble" /\ Fail("lexical")
    /\ UNCHANGED <<cfg, Persistent, phase, startErr, chain, chainChunks,
                   UploadVars, nRestarts, calls, dresp>>

\* ContextualCompressionRetriever: the reranker cuts the candidates to top_n
ChatRerank ==
    /\ cpc = "rerank"
    /\ \/ \E context \in ContextChoices(creq.chain.retriever, creq.candidates) :
            /\ cpc' = "generate"
            /\ creq' = [creq EXCEPT !.context = context, !.standalone = ""]
            /\ UNCHANGED <<chat_history, okLog>>
       \/ creq.chain.retriever.kind = "compression" /\ Fail("rerank")
    /\ UNCHANGED <<cfg, Persistent, phase, startErr, chain, chainChunks,
                   UploadVars, nRestarts, calls, dresp>>

\* chatbot.py:32  ChatOpenAI(temperature=0): the answer is a function of the
\* prompt; one answer text per question
Generate(query) == Answers[query]

\* create_stuff_documents_chain: the LLM writes the answer, or fails
ChatGenerate ==
    /\ cpc = "generate"
    /\ \/ /\ cpc' = "collect"
          /\ creq' = [creq EXCEPT !.answer = Generate(creq.query),
                                   !.dense = <<>>, !.candidates = <<>>]
          /\ UNCHANGED <<chat_history, okLog>>
       \/ Fail("generate")
    /\ UNCHANGED <<cfg, Persistent, phase, startErr, chain, chainChunks,
                   UploadVars, nRestarts, calls, dresp>>

\* a get_response that appends only the assistant turn when it returns
ChatCollect_AnswerOnly ==
    /\ cpc = "collect"
    /\ \/ \E docs \in source_documents(creq.context) :
            /\ chat_history' = Append(chat_history, AIMessage(creq.answer))
            /\ okLog' = Append(okLog, [query |-> creq.query, answer |-> creq.answer])
            /\ creq' = [creq EXCEPT !.status = 200, !.source_documents = docs]
            /\ cpc' = "return"
       \/ Len(creq.context) > 0 /\ Fail("metadata")
    /\ UNCHANGED <<cfg, Persistent, phase, startErr, chain, chainChunks,
                   UploadVars, nRestarts, calls, dresp>>

\* chatbot.py:118-131  sources are collected (a passage without the metadata
\* keys raises KeyError), the history is extended and the result returned
ChatCollect ==
    /\ cpc = "collect"
    /\ \/ \E docs \in source_documents(creq.context) :
            /\ chat_history' = ExtendHistory(chat_history, creq.query, creq.answer)
            /\ okLog' = Append(okLog, [query |-> creq.query, answer |-> creq.answer])
            /\ creq' = [creq EXCEPT !.status = 200, !.source_documents = docs]
            /\ cpc' = "return"
       \/ Len(creq.context) > 0 /\ Fail("metadata")
    /\ UNCHANGED <<cfg, Persistent, phase, startErr, chain, chainChunks,
                   UploadVars, nRestarts, calls, dresp>>

\* app.py:55-58  the handler returns the response or raises HTTPException(500)
ChatReturn ==
    /\ cpc = "return"
    /\ cpc' = "idle"
    /\ creq' = NoReq
    /\ UNCHANGED <<cfg, Persistent, phase, startErr, chat_history, chain,
                   chainChunks, UploadVars, okLog, nRestarts, calls, dresp>>

\* ------------------------------------------ overlapping get_response calls
\* chain.invoke writes no attribute of the Chatbot, so a call of a thread is
\* followed through three positions only: it has read self.chat_history and
\* invoked the chain ("running"), it has extended the history or failed
\* ("return"), the handler has returned ("idle").

Other(t) == CHOOSE u \in Threads : u # t

\* number of history entries the running calls may still append
Pending == 2 * Cardinality({t \in Threads : calls[t].pc = "running"})

\* chatbot.py:117  thread t calls get_response(q); the call of the other
\* thread, if one runs, began before this one
GetResponseBegin(t, q) ==
    /\ phase = "up" /\ upc = "idle"
    /\ calls[t].pc = "idle"
    /\ Len(chat_history) + Pending < 2 * MaxQueries
    /\ calls' = [calls EXCEPT
                   ![t] = [NoCall EXCEPT !.pc = "running", !.query = q,
                                          !.pre = chat_history,
                                          !.after = (calls[Other(t)].pc # "idle")],
                   ![Other(t)].after = FALSE]
    /\ UNCHANGED <<cfg, Persistent, phase, startErr, chat_history, chain,
                   chainChunks, UploadVars, ChatVars, nRestarts, dresp>>

\* a get_response that writes back the history it read when it began
GetResponseEnd_FromSnapshot(t) ==
    /\ calls[t].pc = "running"
    /\ \/ /\ chat_history' = ExtendHistory(calls[t].pre, calls[t].query,
                                            Generate(calls[t].query))
          /\ okLog' = Append(okLog, [query |-> calls[t].query,
                                     answer |-> Generate(calls[t].query)])
          /\ calls' = [calls EXCEPT ![t].pc = "return", ![t].status = 200]
       \/ /\ calls' = [calls EXCEPT ![t].pc = "return", ![t].status = 500]
          /\ UNCHANGED <<chat_history, okLog>>
    /\ UNCHANGED <<cfg, Persistent, phase, startErr, chain, chainChunks,
                   UploadVars, cpc, creq, nRestarts, dresp>>

\* chatbot.py:117-127  the chain returned and the history is extended by one
\* list.extend call, or an exception left get_response
GetResponseEnd(t) ==
    /\ calls[t].pc = "running"
    /\ \/ /\ chat_history' = ExtendHistory(chat_history, calls[t].query,
                                            Generate(calls[t].query))
          /\ okLog' = Append(okLog, [query |-> calls[t].query,
                                     answer |-> Generate(calls[t].query)])
          /\ calls' = [calls EXCEPT ![t].pc = "return", ![t].status = 200]
       \/ /\ calls' = [calls EXCEPT ![t].pc = "return", ![t].status = 500]
          /\ UNCHANGED <<chat_history, okLog>>
    /\ UNCHANGED <<cfg, Persistent, phase, startErr, chain, chainChunks,
                   UploadVars, cpc, creq, nRestarts, dresp>>

\* chatbot.py:128-131, app.py:55-58  the call and its handler return
GetResponseReturn(t) ==
    /\ calls[t].pc = "return"
    /\ calls' = [calls EXCEPT ![t] = NoCall]
    /\ UNCHANGED <<cfg, Persistent, phase, startErr, chat_history, chain,
                   chainChunks, UploadVars, ChatVars, nRestarts, dresp>>

\* ------------------------------------------ get_document (app.py:79-90)
\* get_document(filename) with docs the content of DOCUMENT_DIR: the try
\* block raises HTTPException(404) for a missing file (app.py:84-86) or
\* another exception (fault) while the response is built (app.py:87), and
\* the `except Exception` clause answers every exception of the block, the
\* HTTPException included, with HTTPException(500, str(e)) (app.py:88-90)
get_document(docs, filename, fault) ==
    LET raised ==
            IF filename \notin docs
            THEN [kind |-> "HTTPException", status_code |-> 404,
                  detail |-> "Document not found"]
            ELSE IF fault # "none"
            THEN [kind |-> fault, status_code |-> 0, detail |-> fault]
            ELSE [kind |-> "none", status_code |-> 0, detail |-> ""]
    IN IF raised.kind = "none"
       THEN [filename |-> filename, exists |-> TRUE, status |-> 200, detail |-> ""]
       ELSE [filename |-> filename, exists |-> filename \in docs,
             status |-> 500, detail |-> raised.detail]

\* app.py:79-90  the handler answers a request for filename
GetDocument(filename) ==
    /\ phase = "up" /\ upc = "idle"
    /\ \E fault \in {"none", "OSError"} :
         dresp' = get_document(docDir, filename, fault)
    /\ UNCHANGED <<cfg, Persistent, phase, startErr, chat_history, chain,
                   chainChunks, UploadVars, ChatVars, nRestarts, calls>>

\* ----------------------------------------------------------- specifications
HandlerIdle == upc = "idle" /\ cpc = "idle"

Steps ==
    \/ StartChatbot
    \/ StartProcessor
    \/ UploadIngest
    \/ \E f \in Files : UploadMove(f)
    \/ UploadRmtree
    \/ CreateChainLoad
    \/ CreateChainBuild
    \/ CreateChainAssign
    \/ UploadRespond
    \/ ChatContextualize
    \/ ChatRetrieve
    \/ ChatRerank
    \/ ChatGenerate
    \/ ChatCollect
    \/ ChatReturn

\* The handlers of app.py are coroutines without an await: the event loop
\* runs each of them to completion before it starts the next.
Next ==
    \/ Steps
    \/ Restart
    \/ HandlerIdle /\ \E f \in Files : UploadSave(f)
    \/ HandlerIdle /\ \E q \in Queries : ChatInvoke(q)

Spec == Init /\ [][Next]_vars

\* The Chatbot object shared by two threads of one process run: a
\* get_response call and an upload (with its _create_chain call) interleave
\* step by step.
NextThreads ==
    \/ Steps
    \/ \E f \in Files : UploadSave(f)
    \/ \E q \in Queries : ChatInvoke(q)

SpecThreads == Init /\ [][NextThreads]_vars

CallsIdle == \A t \in Threads : calls[t].pc = "idle"

\* Two threads call get_response on the one Chatbot and their calls overlap;
\* uploads run while no call runs.
NextOverlap ==
    \/ StartChatbot
    \/ StartProcessor
    \/ (upc = "idle" /\ CallsIdle) /\ \E f \in Files : UploadSave(f)
    \/ UploadIngest
    \/ \E f \in Files : UploadMove(f)
    \/ UploadRmtree
    \/ CreateChainLoad
    \/ CreateChainBuild
    \/ CreateChainAssign
    \/ UploadRespond
    \/ \E t \in Threads, q \in Queries : GetResponseBegin(t, q)
    \/ \E t \in Threads : GetResponseEnd(t)
    \/ \E t \in Threads : GetResponseReturn(t)

SpecOverlap == Init /\ [][NextOverlap]_vars

\* The document endpoints: uploads and get_document requests, one handler at
\* a time on the event loop.
NextDocuments ==
    \/ StartChatbot
    \/ StartProcessor
    \/ upc = "idle" /\ \E f \in Files : UploadSave(f)
    \/ UploadIngest
    \/ \E f \in Files : UploadMove(f)
    \/ UploadRmtree
    \/ CreateChainLoad
    \/ CreateChainBuild
    \/ CreateChainAssign
    \/ UploadRespond
    \/ \E f \in Files : GetDocument(f)

SpecDocuments == Init /\ [][NextDocuments]_vars

\* ===================================================================== claims
Returned == cpc = "return" /\ creq.status = 200
Failed == cpc = "return" /\ creq.status = 500

\* C1: after N successful get_response calls on a freshly constructed Chatbot
\* chat_history has exactly 2N entries; entry 2i-1 is the user turn holding the
\* i-th query, entry 2i the assistant turn holding the answer returned for it;
\* and a call that returns has left the history it found as a prefix.
C1_TurnAlternation ==
    /\ Len(chat_history) = 2 * Len(okLog)
    /\ \A i \in 1..Len(okLog) :
         /\ chat_history[2 * i - 1] = [role |-> "user", content |-> okLog[i].query]
         /\ chat_history[2 * i] = [role |-> "assistant", content |-> okLog[i].answer]
    /\ Returned =>
         /\ IsPrefix(creq.pre, chat_history)
         /\ Len(chat_history) = Len(creq.pre) + 2
         /\ okLog[Len(okLog)] = [query |-> creq.query, answer |-> creq.answer]

\* two calls with different queries and different answers have returned
C1_Witness ==
    /\ Returned
    /\ Len(okLog) = 2
    /\ okLog[1].query # okLog[2].query
    /\ okLog[1].answer # okLog[2].answer

\* C2: when a stage of the query fails (contextualization, dense or lexical
\* search, reranking, generation, reading the passage metadata) the call
\* signals the failure with no answer and no sources returned, and
\* chat_history is what it was when the call began.
C2_FailureLeavesHistory ==
    /\ cpc = "return" =>
         (creq.failed # "none" <=> creq.status = 500)
    /\ Failed =>
         /\ creq.source_documents = <<>>
         /\ chat_history = creq.pre
         /\ Len(chat_history) = 2 * Len(okLog)

\* the last stage failed on a call that began with a non-empty history
C2_Witness ==
    /\ Failed
    /\ creq.failed = "metadata"
    /\ Len(creq.pre) = 2
    /\ creq.answer # ""

\* the text get_response puts in an entry for page p
C3_PageLabel(p) == IF p = 0 THEN "page: 0" ELSE IF p = 1 THEN "page: 1" ELSE "page: ?"

\* the distinct (source, page) pairs among the passages of a context
C3_Pairs(context) ==
    {<<context[i].metadata.source, context[i].metadata.page>> : i \in DOMAIN context}

\* C3: source_documents of a returned call has exactly one entry for every
\* distinct (source, page) pair among the context passages and no other entry.
C3_SourceDedup ==
    Returned =>
        LET docs == creq.source_documents
            pairs == C3_Pairs(creq.context)
        IN /\ Len(docs) = Cardinality(pairs)
           /\ \A pr \in pairs :
                Cardinality({j \in DOMAIN docs :
                    docs[j] = <<pr[1], C3_PageLabel(pr[2])>>}) = 1
           /\ \A j \in DOMAIN docs :
                \E pr \in pairs : docs[j] = <<pr[1], C3_PageLabel(pr[2])>>

\* three passages were returned, two of them from the same page of one source
C3_Witness ==
    /\ Returned
    /\ Len(creq.context) = 3
    /\ Cardinality(C3_Pairs(creq.context)) = 2
    /\ Len(creq.source_documents) = 2

\* C4: with rerank=False the Chatbot is constructed and queries are answered
\* from the fused list: construction does not end in an error of
\* _create_chain itself.
C4_RerankDisabledConstructs ==
    ~cfg.rerank => startErr # "UnboundLocalError"

\* C5: with lexical retrieval enabled and a chain built from zero chunks, the
\* chain has no lexical index and no fusion stage, and the candidates of every
\* query are the dense results, same order and same members.
C5_EmptyCorpusDenseOnly ==
    (phase = "up" /\ cfg.bm25 /\ Len(chainChunks) = 0) =>
        /\ BaseRetriever(chain.retriever).kind = "dense"
        /\ LexicalCorpus(chain) = <<>>
        /\ cpc # "idle" => creq.candidates = creq.dense

\* a query on a chain built from an empty document store found dense results
C5_Witness ==
    /\ phase = "up" /\ cfg.bm25 /\ Len(chainChunks) = 0
    /\ cpc = "rerank"
    /\ Len(creq.dense) >= 2
    /\ creq.candidates = creq.dense

\* one step of the property below
C6_Step ==
    (\/ docDir' # docDir
     \/ (phase = "up" /\ phase' = "up" /\ chain' # chain)
     \/ (upc # "idle" /\ ~(staging \subseteq staging')))
    => (Len(ulog) >= 2 /\ ulog[1] = "save" /\ ulog[2] = "ingest")

\* C6: the document store and the chain change only in an upload request
\* whose compute_and_store_embeddings call has returned; a request whose
\* ingestion failed moves no file and does not rebuild the chain.
C6_MoveOnlyAfterIngest == [][C6_Step]_vars

\* after an upload that moved a file, a later request failed in ingestion and
\* left its file in the staging directory
C6_Witness ==
    /\ upc = "idle"
    /\ ulog = <<"save", "error">>
    /\ docDir # {}
    /\ ufile \in staging
    /\ ufile \notin docDir

\* a value a complete run of _create_chain assigns to self.chain
IsCompleteChain(c) ==
    /\ c.kind = "chain"
    /\ c = create_chain(cfg.bm25, cfg.rerank, LexicalCorpus(c))

\* one step of the property below
C7_Step ==
       /\ cpc' # "idle" => IsCompleteChain(creq'.chain)
       /\ (cpc # "idle" /\ cpc' # "idle") => creq'.chain = creq.chain
       /\ (cpc = "idle" /\ cpc' # "idle") => creq'.chain = chain
       /\ (phase = "up" /\ phase' = "up" /\ chain' # chain) =>
             (upc = "assign" /\ IsCompleteChain(chain) /\ IsCompleteChain(chain'))
       /\ (upc \in {"load", "build"} /\ upc' = "idle") => chain' = chain

\* C7: self.chain changes in the single assignment step and only to a
\* complete chain; a get_response running beside a rebuild holds one complete
\* chain from its first step to its last; a rebuild that fails leaves the
\* installed chain in place.
C7_AtomicChainSwap == [][C7_Step]_vars

\* a query still runs on the old chain after the rebuild installed a new one
C7_Witness ==
    /\ cpc = "generate"
    /\ upc = "respond"
    /\ creq.chain # chain
    /\ IsCompleteChain(creq.chain)
    /\ IsCompleteChain(chain)

RECURSIVE ChunkCount(_)
\* number of chunks the files of a directory split into
ChunkCount(files) ==
    IF files = {} THEN 0
    ELSE LET f == CHOOSE g \in files : TRUE
         IN Len(PagesOf(f)) + ChunkCount(files \ {f})

\* the steps of an upload request that ran to its response
C8_StepOrder(log) ==
    /\ Len(log) >= 5
    /\ log[1] = "save" /\ log[2] = "ingest"
    /\ \A i \in 3..(Len(log) - 2) : log[i] = "move"
    /\ log[Len(log) - 1] = "rmtree"
    /\ log[Len(log)] = "rebuild"

\* C8: when an upload request is about to return success, the vector insert,
\* the moves and the rebuild have happened in that order, the uploaded file is
\* in the document store with its rows in the collection, and the lexical
\* index in use holds exactly the chunks of every file of the document store.
C8_UploadRebuildsLexicalIndex ==
    upc = "respond" =>
        LET corpus == LexicalCorpus(chain)
        IN /\ C8_StepOrder(ulog)
           /\ ufile \in docDir
           /\ \A i \in 1..Len(PagesOf(ufile)) :
                \E r \in DOMAIN Rows : Rows[r].text = <<ufile, i>>
           /\ Len(corpus) = ChunkCount(docDir)
           /\ \A f \in docDir : \A i \in 1..Len(PagesOf(f)) :
                \E j \in DOMAIN corpus :
                    /\ corpus[j].page_content = <<f, i>>
                    /\ corpus[j].metadata = [source |-> <<DOCUMENT_DIR, f>>,
                                             page |-> PagesOf(f)[i]]

\* the second upload returns: the index holds the chunks of both documents
C8_Witness ==
    /\ upc = "respond"
    /\ docDir = {"a.pdf", "b.pdf"}
    /\ Len(LexicalCorpus(chain)) = 4

CountText(rows, t) == Cardinality({i \in DOMAIN rows : rows[i].text = t})

\* one step of the property below
C9_Step ==
       /\ \A k \in DOMAIN milvus.colls :
            /\ k \in DOMAIN milvus'.colls
            /\ IsPrefix(milvus.colls[k], milvus'.colls[k])
       /\ (upc = "ingest" /\ ulog' = Append(ulog, "ingest")) =>
            LET old == milvus.colls[CollKey]
                new == milvus'.colls[CollKey]
            IN /\ Len(new) = Len(old) + ChunkCount(staging)
               /\ \A f \in staging : \A i \in 1..Len(PagesOf(f)) :
                    CountText(new, <<f, i>>) = CountText(old, <<f, i>>) + 1

\* C9: no step removes or changes a stored row; a successful
\* compute_and_store_embeddings over a directory of n chunks adds exactly n
\* rows, one more copy of every chunk whether or not it was stored before.
C9_CollectionOnlyGrows == [][C9_Step]_vars

\* the same directory was ingested twice: every row is stored twice
C9_Witness ==
    /\ phase = "up"
    /\ upc = "move"
    /\ Len(Rows) = 6
    /\ \A i \in 1..3 : Rows[i] = Rows[i + 3]

NoDuplicates(seq) == \A i, j \in DOMAIN seq : i # j => seq[i] # seq[j]

\* one step of the property below
C10_Construction ==
    phase \in {"starting", "processor"} =>
        /\ milvus.dbs \subseteq milvus'.dbs
        /\ \A k \in DOMAIN milvus.colls :
             k \in DOMAIN milvus'.colls /\ milvus'.colls[k] = milvus.colls[k]
        /\ \A k \in DOMAIN milvus'.colls \ DOMAIN milvus.colls :
             k = CollKey /\ milvus'.colls[k] = <<>>
        /\ milvus'.created # milvus.created =>
             (CollKey \notin DOMAIN milvus.colls
              /\ milvus'.created = Append(milvus.created, CollKey))
        /\ milvus'.dbCreated # milvus.dbCreated =>
             (cfg.db \notin milvus.dbs
              /\ milvus'.dbCreated = Append(milvus.dbCreated, cfg.db))
        /\ NoDuplicates(milvus'.created)
        /\ NoDuplicates(milvus'.dbCreated)
        /\ phase' = "up" => (cfg.db \in milvus'.dbs /\ CollKey \in DOMAIN milvus'.colls)

\* C10: a VectorStore construction creates the database only if it is not
\* listed and the collection only if it does not exist; an existing
\* collection keeps all its rows; no collection or database is created twice.
C10_ConstructionIdempotent == [][C10_Construction]_vars

\* after a restart both constructions found the collection with its rows
C10_Witness ==
    /\ phase = "up"
    /\ nRestarts = 1
    /\ ulog = <<>>
    /\ CollKey \in DOMAIN milvus.colls
    /\ Len(Rows) > 0
    /\ Len(milvus.created) = 1

\* C11: a failure of lexical search, at chain construction while the lexical
\* corpus is loaded or during a query, fails neither the construction nor the
\* query (retrieval goes on with the dense results alone); of the two searches
\* only the dense one can make a query fail.
C11_LexicalFailureDegrades ==
    /\ startErr # "LoaderError"
    /\ cpc = "return" => creq.failed # "lexical"

\* C12: with the reranker enabled, the passages handed to answer synthesis
\* number exactly min(3, K) for a fused candidate list of K passages, and
\* every one of them is a member of that candidate list.
C12_RerankTruncation ==
    (cpc = "generate" /\ creq.chain.retriever.kind = "compression") =>
        /\ Len(creq.context) = Min(3, Len(creq.candidates))
        /\ \A i \in DOMAIN creq.context :
             \E j \in DOMAIN creq.candidates : creq.context[i] = creq.candidates[j]

\* four fused candidates, from both searches, were cut to three passages
C12_Witness ==
    /\ cpc = "generate"
    /\ creq.chain.retriever.kind = "compression"
    /\ Len(creq.candidates) = 4
    /\ Len(creq.context) = 3

\* C13: for a query issued with an empty conversation history the question
\* given to retrieval is the user's question unchanged, and contextualizing
\* that question again with the empty history gives the same text.
C13_EmptyHistoryKeepsQuestion ==
    (cpc = "retrieve" /\ creq.pre = <<>>) =>
        /\ creq.standalone = creq.query
        /\ Contextualize(creq.pre, creq.standalone) = {creq.standalone}

\* the first query on a fresh Chatbot is about to be retrieved
C13_Witness ==
    /\ cpc = "retrieve"
    /\ creq.pre = <<>>
    /\ okLog = <<>>
    /\ creq.query = "q2"
    /\ creq.standalone = "q2"

InFlight == cpc \in {"contextualize", "retrieve", "rerank", "generate", "collect"}

\* C14 (as stated): while retrieval and synthesis of a query are in flight
\* the user turn of that query is already the last entry of chat_history.
C14_UserTurnWhileInFlight ==
    InFlight =>
        /\ Len(chat_history) = Len(creq.pre) + 1
        /\ chat_history[Len(chat_history)] = HumanMessage(creq.query)

\* one step of the property below
C14_Step ==
    /\ InFlight => chat_history = creq.pre
    /\ (phase = "up" /\ phase' = "up" /\ chat_history' # chat_history) =>
         /\ cpc = "collect" /\ cpc' = "return" /\ creq'.status = 200
         /\ chat_history' =
              chat_history \o <<HumanMessage(creq.query), AIMessage(creq.answer)>>
    /\ (InFlight /\ cpc' = "return" /\ creq'.status = 500) =>
         chat_history' = chat_history

\* C14 (amended): while a query is in flight chat_history is what it was when
\* the call began; the user turn and the assistant turn are appended together
\* in the one step that ends a successful query, and a failed query appends
\* nothing.
C14_TurnsAppendedTogether == [][C14_Step]_vars

\* the second query of a conversation returned: its two turns follow the
\* history the call began with
C14_Witness ==
    /\ Returned
    /\ Len(creq.pre) = 2
    /\ creq.pre[1].content # creq.query
    /\ chat_history = creq.pre \o <<HumanMessage(creq.query), AIMessage(creq.answer)>>

\* h is a sequence of (user turn, assistant turn answering it) pairs
C15_Alternates(h) ==
    /\ Len(h) % 2 = 0
    /\ \A i \in 1..(Len(h) \div 2) :
         /\ h[2 * i - 1].role = "user"
         /\ h[2 * i] = AIMessage(Generate(h[2 * i - 1].content))

\* both threads' calls have extended the history and not yet returned
C15_BothDone == \A t \in Threads : calls[t].pc = "return" /\ calls[t].status = 200

\* C15 (as stated): with two overlapping get_response calls chat_history
\* stays a sequence of adjacent (user, assistant) pairs and the pairs appear
\* in the order the queries were issued.
C15_OverlapKeepsIssueOrder ==
    /\ C15_Alternates(chat_history)
    /\ \A t \in Threads :
         (C15_BothDone /\ calls[t].after /\ calls[t].query # calls[Other(t)].query) =>
             LET n == Len(chat_history)
             IN /\ chat_history[n - 3].content = calls[Other(t)].query
                /\ chat_history[n - 1].content = calls[t].query

\* C15 (amended): with two overlapping get_response calls chat_history stays
\* a sequence of adjacent (user, assistant) pairs, one pair per call that
\* succeeded, in the order in which the calls finished; a running call finds
\* the history it began with as a prefix of the current one.
C15_OverlapPairsInCompletionOrder ==
    /\ C15_Alternates(chat_history)
    /\ Len(chat_history) = 2 * Len(okLog)
    /\ \A i \in 1..Len(okLog) :
         /\ chat_history[2 * i - 1] = HumanMessage(okLog[i].query)
         /\ chat_history[2 * i] = AIMessage(okLog[i].answer)
    /\ \A t \in Threads :
         calls[t].pc # "idle" => IsPrefix(calls[t].pre, chat_history)

\* thread 2 began its call after thread 1 and finished first: its pair
\* precedes the pair of the query issued before it
C15_Witness ==
    /\ C15_BothDone
    /\ calls[2].after
    /\ calls[1].pre = <<>> /\ calls[2].pre = <<>>
    /\ calls[1].query # calls[2].query
    /\ Len(chat_history) = 4
    /\ chat_history[1].content = calls[2].query
    /\ chat_history[3].content = calls[1].query

\* the row compute_and_store_embeddings is to store for chunk doc
C16_RowOf(doc) ==
    [vector |-> embed_documents(<<doc.page_content>>)[1],
     text |-> doc.page_content,
     source |-> doc.metadata.source,
     page |-> doc.metadata.page]

\* one step of the property below
C16_Step ==
    (upc = "ingest" /\ ulog' = Append(ulog, "ingest")) =>
        LET texts == load_and_split_documents(UPLOAD_DIR, staging)
            old == milvus.colls[CollKey]
            new == milvus'.colls[CollKey]
        IN /\ Len(new) = Len(old) + Len(texts)
           /\ \A i \in 1..Len(texts) : new[Len(old) + i] = C16_RowOf(texts[i])

\* C16: a compute_and_store_embeddings call that succeeds inserts as many
\* rows as the splitter produced chunks, and the i-th inserted row holds the
\* embedding of the i-th chunk with that chunk's text, source and page.
C16_RowsAlignedWithChunks == [][C16_Step]_vars

\* a directory of two files was ingested into a non-empty collection: the
\* last four rows are the rows of its four chunks in splitter order
C16_Witness ==
    /\ upc = "move"
    /\ ulog = <<"save", "ingest">>
    /\ staging = {"a.pdf", "b.pdf"}
    /\ Len(Rows) > 4
    /\ LET texts == load_and_split_documents(UPLOAD_DIR, staging)
       IN /\ Len(texts) = 4
          /\ \A i \in 1..4 : Rows[Len(Rows) - 4 + i] = C16_RowOf(texts[i])
          /\ texts[3].metadata.page = 1

\* one step of the property below
C17_Step ==
    LET p == get_document_processor(cfg.ptype, milvus, cfg.db, COLLECTION_NAME)
    IN /\ (phase = "starting" /\ phase' # phase /\ startErr' # "MilvusException") =>
            IF cfg.ptype = "naive"
            THEN /\ p.err = "none"
                 /\ p.processor.kind = "NaiveProcessor"
                 /\ startErr' # "ValueError"
                 /\ cfg.db \in milvus'.dbs /\ CollKey \in DOMAIN milvus'.colls
            ELSE /\ p.err = "ValueError"
                 /\ p.processor = NoProcessor
                 /\ p.connects = 0
                 /\ startErr' = "ValueError" /\ phase' = "crashed"
                 /\ milvus' = milvus
       /\ (phase = "processor" /\ phase' # phase) =>
            /\ cfg.ptype = "naive"
            /\ p.err = "none"
            /\ p.processor.kind = "NaiveProcessor"
            /\ phase' = "up"

\* C17: get_document_processor returns a NaiveProcessor when the tag is
\* "naive"; for every other tag it raises ValueError, having constructed no
\* processor and opened no vector-store connection (the Milvus server is
\* left as it was).
C17_FactoryRejectsUnknownTag == [][C17_Step]_vars

\* start-up ended in the factory's ValueError; the configured database, which
\* a VectorStore construction would have created, does not exist
C17_Witness ==
    /\ phase = "crashed"
    /\ startErr = "ValueError"
    /\ cfg.ptype = "semantic"
    /\ cfg.db = "chatbot"
    /\ "chatbot" \notin milvus.dbs
    /\ milvus.colls = <<>>

\* C18: for each of the four combinations of the bm25 and rerank flags the
\* construction of the Chatbot and every later _create_chain call build a
\* chain without error, and with bm25 = False the chain is built over the
\* dense retriever alone.
C18_AllFlagCombinationsConstruct ==
    LET chunks == IF cfg.bm25 THEN LoadLexicalCorpus(staging, docDir) ELSE <<>>
        built == create_chain(cfg.bm25, cfg.rerank, chunks)
    IN /\ startErr # "UnboundLocalError"
       /\ phase \in {"processor", "up"} =>
            /\ chain.kind = "chain"
            /\ built.kind = "chain"
            /\ ~cfg.bm25 => BaseRetriever(built.retriever) = semantic_retriever

\* one step of the property below
C19_Step ==
    /\ upc' # upc => chat_history' = chat_history
    /\ (phase = "up" /\ phase' = "up" /\ chain' # chain) =>
          chat_history' = chat_history
    /\ (cpc = "idle" /\ cpc' # "idle") =>
          /\ creq'.pre = chat_history
          /\ chat_history' = chat_history

\* C19: no step of the upload handler, the _create_chain call and its
\* assignment of the new chain included, changes chat_history, and a query
\* that begins is given the stored turns as its history: the turns recorded
\* before an upload are the history of the first query after it.
C19_RebuildKeepsHistory == [][C19_Step]_vars

\* an upload has just rebuilt the chain of a Chatbot holding the two turns of
\* an earlier query
C19_Witness ==
    /\ upc = "respond"
    /\ okLog = <<[query |-> "q1", answer |-> "ans1"]>>
    /\ chat_history = <<HumanMessage("q1"), AIMessage("ans1")>>
    /\ Len(LexicalCorpus(chain)) > 0

\* one step of the property below
C20_Step ==
    upc = "ingest" =>
        /\ ulog' = Append(ulog, "error") => milvus' = milvus
        /\ milvus' # milvus =>
             /\ ulog' = Append(ulog, "ingest")
             /\ milvus'.colls[CollKey] =
                  milvus.colls[CollKey]
                    \o EmbeddingRows(load_and_split_documents(UPLOAD_DIR, staging))

\* C20: a compute_and_store_embeddings call that fails in loading, splitting
\* or embedding leaves the collection as it was; rows are added only by the
\* one insert of a call that embedded every chunk of the directory, never a
\* part of them.
C20_FailedIngestInsertsNothing == [][C20_Step]_vars

\* the ingestion of a.pdf failed on a collection that holds rows: the rows
\* are those of b.pdf only
C20_Witness ==
    /\ upc = "idle"
    /\ ulog = <<"save", "error">>
    /\ ufile = "a.pdf"
    /\ staging = {"a.pdf"}
    /\ Len(Rows) > 0
    /\ \A r \in DOMAIN Rows : Rows[r].text[1] = "b.pdf"

\* one step of the property below
C21_Step ==
    (upc = "ingest" /\ ulog' = Append(ulog, "ingest")) =>
        \A f \in ingested \ {ufile} : \A i \in 1..Len(PagesOf(f)) :
            CountText(milvus'.colls[CollKey], <<f, i>>)
                = CountText(milvus.colls[CollKey], <<f, i>>)

\* C21: a file that an earlier upload request ingested and left in the
\* staging directory (the request failed after ingestion) is not ingested
\* again by a later upload of a different file: the ingestion of that upload
\* adds no row of it.
C21_StagedFileNotIngestedAgain == [][C21_Step]_vars

\* the rows and the lexical chunks of one document carry one source identifier
C22_SameSource ==
    phase = "up" =>
        \A r \in DOMAIN Rows : \A j \in DOMAIN LexicalCorpus(chain) :
            Rows[r].text = LexicalCorpus(chain)[j].page_content =>
                Rows[r].source = LexicalCorpus(chain)[j].metadata.source

\* no two returned entries name the same page of the same file
C22_OneEntryPerPage ==
    Returned =>
        \A i, j \in DOMAIN creq.source_documents :
            LET a == creq.source_documents[i]
                b == creq.source_documents[j]
            IN (a[1][2] = b[1][2] /\ a[2] = b[2]) => i = j

\* C22: for an uploaded document the source identifier stored with its rows
\* in the vector collection equals the one the lexical index gives its
\* chunks, so a page reached through both retrievers yields a single
\* (source, page) entry in the returned sources.
C22_SourceIdentifiersAgree == C22_SameSource /\ C22_OneEntryPerPage

\* C23: a get_document request for a filename that is not in the document
\* store is answered with status 404 "Document not found"; status 500 is
\* the answer to other failures only.
C23_MissingDocumentIs404 ==
    dresp.status # 0 =>
        /\ ~dresp.exists =>
             (dresp.status = 404 /\ dresp.detail = "Document not found")
        /\ dresp.status = 500 => dresp.exists

====
